---- MODULE Spec2Model ----
(***************************************************************************)
(* The threaded HttpClient (src/unnamed/part_001): a registry of           *)
(* HttpTransaction objects keyed by handle id, a static mutex, a static    *)
(* atomic handle counter, and the libcurl multi interface the client       *)
(* drives from Update.  Producer threads call AddRequest, IsCompleted and  *)
(* ReleaseTransaction; one driver thread calls Update.  Every statement    *)
(* that reads or writes shared state outside a critical section is its own *)
(* step, so the interleavings of the C++ code are the behaviours here.     *)
(***************************************************************************)
EXTENDS Integers, Sequences, FiniteSets, TLC

(***************************************************************************)
(* Bounds of the model.                                                    *)
(***************************************************************************)
\* AddRequest calls made in one behaviour.
MaxRequests == 2
\* Body chunks the engine hands to the write callback in one behaviour.
MaxChunks == 2
\* Width of HandleId in the model (unsigned int, 32 bits in the program).
HandleIdBits == 3
\* Time the engine spends on one transfer, in the units timeouts are given in.
MaxElapsed == 2
\* Resolution of the timeouts requests carry: a timeout is a whole number of
\* units, TimeoutUnitsPerMs of them to the millisecond (m_Timeout is a float
\* number of seconds in the program).
TimeoutUnitsPerMs == 2
\* _CreateHandle calls made in one behaviour of the allocator on its own.
MaxCalls == 8
\* RequestUpdate::AddRequest calls made in one behaviour.
MaxAdds == 3

(***************************************************************************)
(* Program constants.                                                      *)
(***************************************************************************)
HandleIdModulus == 2 ^ HandleIdBits
INVALID_HANDLE_ID == HandleIdModulus - 1
CURL_LAST == "CURL_LAST"
CURLE_OK == "CURLE_OK"
CURLE_OPERATION_TIMEDOUT == "CURLE_OPERATION_TIMEDOUT"
CURLE_COULDNT_CONNECT == "CURLE_COULDNT_CONNECT"
\* Result codes a finished transfer can carry (CURLMsg::data.result).
EngineResults == {CURLE_OK, CURLE_OPERATION_TIMEDOUT, CURLE_COULDNT_CONNECT}

Producers == {"p1", "p2"}
Driver == "driver"
Threads == Producers \cup {Driver}
NoThread == "none"
\* nullptr, as a transaction pointer.
NullTx == 0
\* Transactions are named by the order of their allocation.
TxIds == 1 .. MaxRequests
\* Handle ids callers pass: those AddRequest can issue (before or after it has
\* issued them, or never does) and the invalid one.
HandleArgs == (1 .. MaxRequests) \cup {INVALID_HANDLE_ID}
\* An AddRequest call of RequestUpdate that holds no request yet.
NoParam == << >>
\* HttpRequest's constructor: m_Timeout(0.f), no timeout.
DefaultTimeout == 0
\* Timeouts SetTimeout is given: none, and those that can elapse here.
RequestTimeouts == 0 .. MaxElapsed

VARIABLES
    s_TopHandleId,   \* HttpClient::s_TopHandleId
    s_mutex,         \* HttpClient::s_mutex: the thread holding it, or NoThread
    m_Handles,       \* HttpClient::m_Handles: handle id -> transaction
    m_RequestResult, \* HttpTransaction::m_RequestResult, per transaction
    m_Completed,     \* HttpTransaction::m_Completed, per transaction
    destroyed,       \* times `delete` ran on each transaction
    allocated,       \* transactions created by `new` so far
    multi,           \* easy handles added to m_MultiHandle
    delivered,       \* body chunks the engine has written, per session
    finished,        \* sessions whose transfer has ended inside the engine
    msgs,            \* the engine's queue of CURLMsg (finished-events)
    drained,         \* sessions whose finished-event Update has read
    pc,              \* position of each thread
    arg,             \* handle id a thread's call was given, or has created
    transaction,     \* local `transaction` pointer of the call a thread is in
    ret,             \* value the thread's call returned
    curMsg,          \* Update's local `msg`
    cbCount,         \* times each transaction's callback has been invoked
    cbRunning,       \* the transaction whose callback is executing, or NullTx
    issued,          \* handle ids returned by AddRequest, in order of return
    everMapped,      \* handle id -> transaction, as inserted, never erased
    observedTrue,    \* issued handles some IsCompleted call returned true for
    afterTrue,       \* threads in an IsCompleted call begun after such a return
    track,           \* whether observedTrue is being recorded
    serial,          \* whether calls are made one after the other only
    m_Timeout,       \* HttpRequest::m_Timeout of each transaction's request
    timeoutMs,       \* CURLOPT_TIMEOUT_MS of each easy handle, 0 when not set
    elapsed,         \* time the engine has spent on each session's transfer
    handles,         \* main: the slot each producer thread stores its handle in
    mainAt,          \* main: where the driving loop stands between calls
    slot,            \* main: index of the slot the for loop is at
    allCompleted,    \* main: the local allCompleted
    reported,        \* sessions Update has reported as matching no transaction
    m_Lock,          \* first version: HttpClient::m_Lock, the handle counter
    dst,             \* first version: the local dst of _CreateHandle
    m_Requests1,     \* RequestUpdate::m_Requests1, a buffer of requests
    m_Requests2,     \* RequestUpdate::m_Requests2, a buffer of requests
    m_Requests,      \* RequestUpdate::m_Requests: the buffer it points to
    m_UpdatingRequests, \* RequestUpdate::m_UpdatingRequests: the buffer it points to
    m_Mutex,         \* RequestUpdate::m_Mutex: the thread holding it, or NoThread
    ruPc,            \* position of each thread that uses the RequestUpdate
    param,           \* the request an AddRequest call is adding
    target,          \* the buffer an AddRequest call has read m_Requests to be
    position,        \* Update's place in its range-for over the buffer
    executed,        \* requests passed to the executer, in order, per Update call
    added            \* requests AddRequest has been called with so far

vars == << s_TopHandleId, s_mutex, m_Handles, m_RequestResult, m_Completed,
           destroyed, allocated, multi, delivered, finished, msgs, drained,
           pc, arg, transaction, ret, curMsg, cbCount, cbRunning, issued,
           everMapped, observedTrue, afterTrue, track, serial, m_Timeout,
           timeoutMs, elapsed, handles, mainAt, slot, allCompleted, reported,
           m_Lock, dst, m_Requests1, m_Requests2, m_Requests,
           m_UpdatingRequests, m_Mutex, ruPc, param, target, position,
           executed, added >>

clientVars == << s_TopHandleId, m_Handles, m_RequestResult, m_Completed,
                 destroyed, allocated >>
engineVars == << multi, delivered, finished, msgs, drained >>
ghostVars == << cbCount, issued, everMapped, observedTrue, afterTrue >>
timeVars == << m_Timeout, timeoutMs, elapsed >>
mainVars == << handles, mainAt, slot, allCompleted >>
firstVars == << m_Lock, dst >>
ruVars == << m_Requests1, m_Requests2, m_Requests, m_UpdatingRequests, m_Mutex,
            ruPc, param, target, position, executed, added >>
\* Everything of the threaded HttpClient and of main's tests.
httpVars == << s_TopHandleId, s_mutex, m_Handles, m_RequestResult, m_Completed,
              destroyed, allocated, multi, delivered, finished, msgs, drained,
              pc, arg, transaction, ret, curMsg, cbCount, cbRunning, issued,
              everMapped, observedTrue, afterTrue, track, serial, timeVars,
              mainVars, reported >>

\* What a call returned: nothing yet, a bool, or (AddRequest) the handle whose
\* id is then in arg.
NoRet == "none"
RetHandle == "AddRequest: handle"
IsCompletedTrue == "IsCompleted: true"
IsCompletedFalse == "IsCompleted: false"
ReleasedTrue == "ReleaseTransaction: true"
ReleasedFalse == "ReleaseTransaction: false"
NoMsg == [easy |-> NullTx, result |-> CURL_LAST]

\* The state after HttpClient's constructor and the static initialisers.
InitProgram ==
    /\ s_TopHandleId = 0
    /\ s_mutex = NoThread
    /\ m_Handles = << >>
    /\ m_RequestResult = [x \in TxIds |-> CURL_LAST]
    /\ m_Completed = [x \in TxIds |-> FALSE]
    /\ destroyed = [x \in TxIds |-> 0]
    /\ allocated = 0
    /\ multi = {}
    /\ delivered = [x \in TxIds |-> 0]
    /\ finished = {}
    /\ msgs = << >>
    /\ drained = {}
    /\ pc = [t \in Threads |-> "idle"]
    /\ arg = [t \in Threads |-> INVALID_HANDLE_ID]
    /\ transaction = [t \in Threads |-> NullTx]
    /\ ret = [t \in Threads |-> NoRet]
    /\ curMsg = NoMsg
    /\ cbCount = [x \in TxIds |-> 0]
    /\ cbRunning = NullTx
    /\ issued = << >>
    /\ everMapped = << >>
    /\ observedTrue = {}
    /\ afterTrue = {}
    /\ m_Timeout = [x \in TxIds |-> DefaultTimeout]
    /\ timeoutMs = [x \in TxIds |-> 0]
    /\ elapsed = [x \in TxIds |-> 0]
    /\ handles = [t \in Producers |-> INVALID_HANDLE_ID]
    /\ mainAt = "update"
    /\ slot = 1
    /\ allCompleted = TRUE
    /\ reported = {}
    /\ m_Lock = 0
    /\ dst = 0
    /\ m_Requests1 = << >>
    /\ m_Requests2 = << >>
    /\ m_Requests = 1
    /\ m_UpdatingRequests = 2
    /\ m_Mutex = NoThread
    /\ ruPc = [t \in Threads |-> "idle"]
    /\ param = [t \in Producers |-> NoParam]
    /\ target = [t \in Producers |-> 0]
    /\ position = 0
    /\ executed = << >>
    /\ added = 0

Init == InitProgram /\ track = FALSE /\ serial = FALSE

(***************************************************************************)
(* Helpers over the registry map and the mutex.                            *)
(***************************************************************************)
\* std::lock_guard<std::mutex> lock(s_mutex): the constructor returns once
\* the mutex is free.
CanLock_Unguarded(t) == TRUE
CanLock(t) == s_mutex = NoThread

\* m_Handles[handle] = transaction
MapInsert_Clobber(map, h, x) == [k \in DOMAIN map \cup {h} |-> x]
MapInsert(map, h, x) ==
    [k \in DOMAIN map \cup {h} |-> IF k = h THEN x ELSE map[k]]

\* m_Handles.erase( handle )
MapErase_Noop(map, h) == map
MapErase(map, h) == [k \in DOMAIN map \ {h} |-> map[k]]

\* m_Handles.find( handle ), nullptr when it is end()
MapFind(map, h) == IF h \in DOMAIN map THEN map[h] ELSE NullTx

\* std::find_if over m_Handles for the entry whose GetCurl() is `curl`; a
\* transaction's easy handle is named like the transaction.
FindByCurl(map, curl) ==
    IF \E k \in DOMAIN map : map[k] = curl
    THEN CHOOSE k \in DOMAIN map : map[k] = curl
    ELSE INVALID_HANDLE_ID

Alive(x) == x \in 1 .. allocated /\ destroyed[x] = 0

RECURSIVE SumTo(_, _)
SumTo(f, n) == IF n = 0 THEN 0 ELSE f[n] + SumTo(f, n - 1)
\* Chunks written so far, over all sessions.
TotalDelivered == SumTo(delivered, MaxRequests)

\* std::atomic_fetch_add(&s_TopHandleId, 1) on an unsigned int
FetchAdd(v) == (v + 1) % HandleIdModulus

\* static_cast<long>(request.GetTimeout() * 1000): seconds to whole
\* milliseconds, the fraction dropped.
TimeoutMs(timeout) == timeout \div TimeoutUnitsPerMs

\* The engine's view of a session whose CURLOPT_TIMEOUT_MS is set and has
\* passed; with the option at 0 a transfer never times out on it.
TimedOut(s) ==
    /\ timeoutMs[s] > 0
    /\ elapsed[s] >= timeoutMs[s] * TimeoutUnitsPerMs

\* HttpTransaction::IsCompleted
TxIsCompleted(x) == m_RequestResult[x] # CURL_LAST
\* HttpTransaction::IsOk
TxIsOk(x) == m_RequestResult[x] = CURLE_OK
\* HttpTransaction::IsTimeout
TxIsTimeout(x) == m_RequestResult[x] = CURLE_OPERATION_TIMEDOUT

\* A call has returned: the caller takes the result, the call's locals are
\* gone and the thread is idle again.  Nothing another thread can see changes,
\* so the step is taken before any other thread moves on.  When calls are
\* made one after the other, a thread moves only while every other thread is
\* outside a call.
Ready(t) ==
    /\ \A u \in Threads : pc[u] # "done"
    /\ serial => \A u \in Threads \ {t} : pc[u] = "idle"

Return(t) ==
    /\ pc[t] = "done"
    /\ pc' = [pc EXCEPT ![t] = "idle"]
    /\ arg' = [arg EXCEPT ![t] = INVALID_HANDLE_ID]
    /\ transaction' = [transaction EXCEPT ![t] = NullTx]
    /\ ret' = [ret EXCEPT ![t] = NoRet]
    /\ afterTrue' = afterTrue \ {t}
    /\ UNCHANGED << clientVars, engineVars, cbCount, issued, everMapped,
                    observedTrue, s_mutex, curMsg, cbRunning, track, serial,
                    timeVars, mainVars, reported,
                    firstVars, ruVars >>

(***************************************************************************)
(* HttpClient::AddRequest                                                  *)
(***************************************************************************)
\* lock_guard; new HttpTransaction( callback ); curl_easy_setopt calls, with
\* CURLOPT_TIMEOUT_MS set only when 0 < request.GetTimeout()
AddRequest_New(t, timeout) ==
    /\ Ready(t)
    /\ pc[t] = "idle"
    /\ allocated < MaxRequests
    /\ CanLock(t)
    /\ s_mutex' = t
    /\ allocated' = allocated + 1
    /\ m_RequestResult' = [m_RequestResult EXCEPT ![allocated + 1] = CURL_LAST]
    /\ m_Completed' = [m_Completed EXCEPT ![allocated + 1] = FALSE]
    /\ transaction' = [transaction EXCEPT ![t] = allocated + 1]
    /\ m_Timeout' = [m_Timeout EXCEPT ![allocated + 1] = timeout]
    /\ timeoutMs' = [timeoutMs EXCEPT ![allocated + 1] =
                         IF 0 < timeout THEN TimeoutMs(timeout) ELSE 0]
    /\ pc' = [pc EXCEPT ![t] = "add_handle"]
    /\ UNCHANGED << s_TopHandleId, m_Handles, destroyed, engineVars, arg, ret,
                    curMsg, cbRunning, ghostVars, track, serial,
                    elapsed, mainVars, reported,
                    firstVars, ruVars >>

\* curl_multi_add_handle(m_MultiHandle, curl);  then, in _CreateHandle,
\* std::atomic_fetch_add(&s_TopHandleId, 1)
AddRequest_AddHandle(t) ==
    /\ Ready(t)
    /\ pc[t] = "add_handle"
    /\ multi' = multi \cup {transaction[t]}
    /\ s_TopHandleId' = FetchAdd(s_TopHandleId)
    /\ pc' = [pc EXCEPT ![t] = "load"]
    /\ UNCHANGED << m_Handles, m_RequestResult, m_Completed, destroyed,
                    allocated, delivered, finished, msgs, drained, s_mutex,
                    arg, transaction, ret, curMsg, cbRunning, ghostVars,
                    track, serial,
                    timeVars, mainVars, reported,
                    firstVars, ruVars >>

\* _CreateHandle: return s_TopHandleId;  m_Handles[handle] = transaction;
\* return HttpTransactionHandle( handle ); the lock_guard releases the mutex
AddRequest_Insert(t) ==
    /\ Ready(t)
    /\ pc[t] = "load"
    /\ arg' = [arg EXCEPT ![t] = s_TopHandleId]
    /\ m_Handles' = MapInsert(m_Handles, s_TopHandleId, transaction[t])
    /\ everMapped' = MapInsert(everMapped, s_TopHandleId, transaction[t])
    /\ ret' = [ret EXCEPT ![t] = RetHandle]
    /\ issued' = Append(issued, s_TopHandleId)
    /\ s_mutex' = NoThread
    /\ pc' = [pc EXCEPT ![t] = "done"]
    /\ UNCHANGED << s_TopHandleId, m_RequestResult, m_Completed, destroyed,
                    allocated, engineVars, transaction, curMsg, cbRunning,
                    cbCount, observedTrue, afterTrue, track, serial,
                    timeVars, mainVars, reported,
                    firstVars, ruVars >>

\* A request as HttpRequest's constructor leaves it.
AddRequest(t) ==
    \/ AddRequest_New(t, DefaultTimeout)
    \/ AddRequest_AddHandle(t)
    \/ AddRequest_Insert(t)

(***************************************************************************)
(* HttpClient::IsCompleted                                                 *)
(***************************************************************************)
\* The value IsCompleted returns for a handle _GetCurlHandle did not find.
IsCompleted_NotFound_False == IsCompletedFalse
IsCompleted_NotFound == IsCompletedTrue

\* _GetCurlHandle( handle.GetHandleId() ): lock, find, unlock.  When the
\* handle is not found the call returns at once.
IsCompleted_Lookup(t, h) ==
    /\ Ready(t)
    /\ pc[t] = "idle"
    /\ CanLock(t)
    /\ arg' = [arg EXCEPT ![t] = h]
    /\ transaction' = [transaction EXCEPT ![t] = MapFind(m_Handles, h)]
    /\ afterTrue' = IF h \in observedTrue THEN afterTrue \cup {t} ELSE afterTrue
    /\ IF MapFind(m_Handles, h) # NullTx
       THEN /\ pc' = [pc EXCEPT ![t] = "ic_read"]
            /\ UNCHANGED << ret, observedTrue >>
       ELSE /\ pc' = [pc EXCEPT ![t] = "done"]
            /\ ret' = [ret EXCEPT ![t] = IsCompleted_NotFound]
            /\ observedTrue' =
                   IF track /\ IsCompleted_NotFound = IsCompletedTrue
                      /\ \E i \in 1 .. Len(issued) : issued[i] = h
                   THEN observedTrue \cup {h}
                   ELSE observedTrue
    /\ UNCHANGED << clientVars, engineVars, s_mutex, curMsg, cbRunning,
                    cbCount, issued, everMapped, track, serial,
                    timeVars, mainVars, reported,
                    firstVars, ruVars >>

\* return transaction->IsCompleted(), outside the mutex.  Reading a
\* transaction that has been deleted meanwhile can give either value.
IsCompleted_Read(t) ==
    /\ Ready(t)
    /\ pc[t] = "ic_read"
    /\ \E b \in BOOLEAN :
          /\ Alive(transaction[t]) => b = TxIsCompleted(transaction[t])
          /\ ret' = [ret EXCEPT ![t] =
                        IF b THEN IsCompletedTrue ELSE IsCompletedFalse]
          /\ observedTrue' =
                 IF track /\ b /\ \E i \in 1 .. Len(issued) : issued[i] = arg[t]
                 THEN observedTrue \cup {arg[t]}
                 ELSE observedTrue
    /\ pc' = [pc EXCEPT ![t] = "done"]
    /\ UNCHANGED << clientVars, engineVars, s_mutex, arg, transaction, curMsg,
                    cbRunning, cbCount, issued, everMapped, afterTrue, track, serial,
                    timeVars, mainVars, reported,
                    firstVars, ruVars >>

IsCompleted(t) ==
    \/ \E h \in HandleArgs : IsCompleted_Lookup(t, h)
    \/ IsCompleted_Read(t)

(***************************************************************************)
(* HttpClient::ReleaseTransaction                                          *)
(***************************************************************************)
\* _GetCurlHandle( handle.GetHandleId() ): lock, find, unlock; return false
\* when the handle is not found.
ReleaseTransaction_Lookup(t, h) ==
    /\ Ready(t)
    /\ pc[t] = "idle"
    /\ CanLock(t)
    /\ arg' = [arg EXCEPT ![t] = h]
    /\ transaction' = [transaction EXCEPT ![t] = MapFind(m_Handles, h)]
    /\ IF MapFind(m_Handles, h) # NullTx
       THEN /\ pc' = [pc EXCEPT ![t] = "rel_erase"]
            /\ UNCHANGED ret
       ELSE /\ pc' = [pc EXCEPT ![t] = "done"]
            /\ ret' = [ret EXCEPT ![t] = ReleasedFalse]
    /\ UNCHANGED << clientVars, engineVars, ghostVars, s_mutex, curMsg,
                    cbRunning, track, serial,
                    timeVars, mainVars, reported,
                    firstVars, ruVars >>

\* lock_guard; m_Handles.erase( id ); delete transaction; return true.
\* ~HttpTransaction runs curl_easy_cleanup, and nothing takes the easy handle
\* out of m_MultiHandle.  Deleting a transaction a second time either goes
\* unnoticed or is caught by the allocator, which aborts the process.
ReleaseTransaction_Erase(t) ==
    /\ Ready(t)
    /\ pc[t] = "rel_erase"
    /\ CanLock(t)
    /\ m_Handles' = MapErase(m_Handles, arg[t])
    /\ destroyed' = [destroyed EXCEPT ![transaction[t]] = @ + 1]
    /\ ret' = [ret EXCEPT ![t] = ReleasedTrue]
    /\ \E abort \in (IF Alive(transaction[t]) THEN {FALSE} ELSE BOOLEAN) :
          pc' = IF abort
                THEN [u \in Threads |-> "aborted"]
                ELSE [pc EXCEPT ![t] = "done"]
    /\ UNCHANGED << s_TopHandleId, m_RequestResult, m_Completed, allocated,
                    engineVars, s_mutex, arg, transaction, curMsg, cbRunning,
                    ghostVars, track, serial,
                    timeVars, mainVars, reported,
                    firstVars, ruVars >>

ReleaseTransaction(t) ==
    \/ \E h \in HandleArgs : ReleaseTransaction_Lookup(t, h)
    \/ ReleaseTransaction_Erase(t)

(***************************************************************************)
(* HttpTransaction::OnResponse, as Update reaches it.                      *)
(***************************************************************************)
\* m_RequestResult = result;  m_Callback( *this, data, dataSize ) is entered
OnResponse_Enter(x, result) ==
    /\ m_RequestResult' = [m_RequestResult EXCEPT ![x] = result]
    /\ cbCount' = [cbCount EXCEPT ![x] = @ + 1]
    /\ cbRunning' = x

\* m_Callback has returned;  m_Completed = true
OnResponse_Leave ==
    /\ m_Completed' = [m_Completed EXCEPT ![cbRunning] = TRUE]
    /\ cbRunning' = NullTx

(***************************************************************************)
(* HttpClient::Update, on the driver thread.                               *)
(***************************************************************************)
\* curl_multi_perform(m_MultiHandle, &m_HandleCount) is entered
Update_Perform ==
    /\ Ready(Driver)
    /\ pc[Driver] = "idle"
    /\ pc' = [pc EXCEPT ![Driver] = "perform"]
    /\ UNCHANGED << clientVars, engineVars, ghostVars, s_mutex, arg,
                    transaction, ret, curMsg, cbRunning, track, serial,
                    timeVars, mainVars, reported,
                    firstVars, ruVars >>

\* Inside curl_multi_perform the engine has body data for session s and calls
\* the CURLOPT_WRITEFUNCTION: _OnResponse(ptr, size, count, transaction),
\* which calls OnResponse(ptr, dataSize, CURLE_OK).
Perform_Write(s) ==
    /\ Ready(Driver)
    /\ pc[Driver] = "perform"
    /\ s \in multi \ finished
    /\ ~TimedOut(s)
    /\ TotalDelivered < MaxChunks
    /\ delivered' = [delivered EXCEPT ![s] = @ + 1]
    /\ OnResponse_Enter(s, CURLE_OK)
    /\ pc' = [pc EXCEPT ![Driver] = "cb_write"]
    /\ UNCHANGED << s_TopHandleId, m_Handles, m_Completed, destroyed,
                    allocated, multi, finished, msgs, drained, s_mutex, arg,
                    transaction, ret, curMsg, issued, everMapped,
                    observedTrue, afterTrue, track, serial,
                    timeVars, mainVars, reported,
                    firstVars, ruVars >>

\* The callback _OnResponse invoked returns; OnResponse and _OnResponse return
\* into curl_multi_perform.
Perform_WriteReturn ==
    /\ Ready(Driver)
    /\ pc[Driver] = "cb_write"
    /\ OnResponse_Leave
    /\ pc' = [pc EXCEPT ![Driver] = "perform"]
    /\ UNCHANGED << s_TopHandleId, m_Handles, m_RequestResult, destroyed,
                    allocated, engineVars, s_mutex, arg, transaction, ret,
                    curMsg, ghostVars, track, serial,
                    timeVars, mainVars, reported,
                    firstVars, ruVars >>

\* Inside curl_multi_perform time passes for the transfer of session s.
Perform_Tick(s) ==
    /\ Ready(Driver)
    /\ pc[Driver] = "perform"
    /\ s \in multi \ finished
    /\ elapsed[s] < MaxElapsed
    /\ elapsed' = [elapsed EXCEPT ![s] = @ + 1]
    /\ UNCHANGED << clientVars, engineVars, ghostVars, s_mutex, pc, arg,
                    transaction, ret, curMsg, cbRunning, track, serial,
                    m_Timeout, timeoutMs, mainVars, reported,
                    firstVars, ruVars >>

\* Inside curl_multi_perform the transfer of session s ends with `result`; the
\* engine queues a CURLMsg for it.  A transfer whose timeout has passed ends
\* with CURLE_OPERATION_TIMEDOUT.
Perform_Finish(s, result) ==
    /\ Ready(Driver)
    /\ pc[Driver] = "perform"
    /\ s \in multi \ finished
    /\ TimedOut(s) => result = CURLE_OPERATION_TIMEDOUT
    /\ finished' = finished \cup {s}
    /\ msgs' = Append(msgs, [easy |-> s, result |-> result])
    /\ UNCHANGED << clientVars, multi, delivered, drained, ghostVars, s_mutex,
                    pc, arg, transaction, ret, curMsg, cbRunning, track, serial,
                    timeVars, mainVars, reported,
                    firstVars, ruVars >>

\* curl_multi_perform returns
Perform_Return ==
    /\ Ready(Driver)
    /\ pc[Driver] = "perform"
    /\ pc' = [pc EXCEPT ![Driver] = "info_read"]
    /\ UNCHANGED << clientVars, engineVars, ghostVars, s_mutex, arg,
                    transaction, ret, curMsg, cbRunning, track, serial,
                    timeVars, mainVars, reported,
                    firstVars, ruVars >>

\* curl_multi_info_read returns nullptr: the while loop and Update end
InfoRead_Empty ==
    /\ Ready(Driver)
    /\ pc[Driver] = "info_read"
    /\ msgs = << >>
    /\ pc' = [pc EXCEPT ![Driver] = "idle"]
    /\ UNCHANGED << clientVars, engineVars, ghostVars, s_mutex, arg,
                    transaction, ret, curMsg, cbRunning, track, serial,
                    timeVars, mainVars, reported,
                    firstVars, ruVars >>

\* curl_multi_info_read returns a message with result CURLE_OK: nothing is done
InfoRead_Ok ==
    /\ Ready(Driver)
    /\ pc[Driver] = "info_read"
    /\ msgs # << >>
    /\ Head(msgs).result = CURLE_OK
    /\ msgs' = Tail(msgs)
    /\ drained' = drained \cup {Head(msgs).easy}
    /\ UNCHANGED << clientVars, multi, delivered, finished, ghostVars,
                    s_mutex, pc, arg, transaction, ret, curMsg, cbRunning,
                    track, serial,
                    timeVars, mainVars, reported,
                    firstVars, ruVars >>

\* curl_multi_info_read returns a message with a failure result
InfoRead_Fail ==
    /\ Ready(Driver)
    /\ pc[Driver] = "info_read"
    /\ msgs # << >>
    /\ Head(msgs).result # CURLE_OK
    /\ msgs' = Tail(msgs)
    /\ drained' = drained \cup {Head(msgs).easy}
    /\ curMsg' = Head(msgs)
    /\ pc' = [pc EXCEPT ![Driver] = "dispatch"]
    /\ UNCHANGED << clientVars, multi, delivered, finished, ghostVars,
                    s_mutex, arg, transaction, ret, cbRunning, track, serial,
                    timeVars, mainVars, reported,
                    firstVars, ruVars >>

\* lock_guard; find_if finds the transaction of msg->easy_handle;
\* it->second->OnResponse(nullptr, 0, msg->data.result) is entered
Update_Dispatch ==
    /\ Ready(Driver)
    /\ pc[Driver] = "dispatch"
    /\ CanLock(Driver)
    /\ FindByCurl(m_Handles, curMsg.easy) # INVALID_HANDLE_ID
    /\ s_mutex' = Driver
    /\ OnResponse_Enter(m_Handles[FindByCurl(m_Handles, curMsg.easy)],
                        curMsg.result)
    /\ pc' = [pc EXCEPT ![Driver] = "cb_fail"]
    /\ UNCHANGED << s_TopHandleId, m_Handles, m_Completed, destroyed,
                    allocated, engineVars, arg, transaction, ret, curMsg,
                    issued, everMapped, observedTrue, afterTrue, track, serial,
                    timeVars, mainVars, reported,
                    firstVars, ruVars >>

\* lock_guard; find_if returns end(): the empty else branch
Update_DispatchNotFound ==
    /\ Ready(Driver)
    /\ pc[Driver] = "dispatch"
    /\ CanLock(Driver)
    /\ FindByCurl(m_Handles, curMsg.easy) = INVALID_HANDLE_ID
    /\ curMsg' = NoMsg
    /\ pc' = [pc EXCEPT ![Driver] = "info_read"]
    /\ UNCHANGED << clientVars, engineVars, ghostVars, s_mutex, arg,
                    transaction, ret, cbRunning, track, serial,
                    timeVars, mainVars, reported,
                    firstVars, ruVars >>

\* The callback returns, OnResponse returns, the lock_guard releases the mutex
Update_DispatchReturn ==
    /\ Ready(Driver)
    /\ pc[Driver] = "cb_fail"
    /\ OnResponse_Leave
    /\ s_mutex' = NoThread
    /\ curMsg' = NoMsg
    /\ pc' = [pc EXCEPT ![Driver] = "info_read"]
    /\ UNCHANGED << s_TopHandleId, m_Handles, m_RequestResult, destroyed,
                    allocated, engineVars, arg, transaction, ret, ghostVars,
                    track, serial,
                    timeVars, mainVars, reported,
                    firstVars, ruVars >>

Update ==
    \/ Update_Perform
    \/ \E s \in TxIds : Perform_Write(s)
    \/ Perform_WriteReturn
    \/ \E s \in TxIds, result \in EngineResults : Perform_Finish(s, result)
    \/ Perform_Return
    \/ InfoRead_Empty
    \/ InfoRead_Ok
    \/ InfoRead_Fail
    \/ Update_Dispatch
    \/ Update_DispatchNotFound
    \/ Update_DispatchReturn

(***************************************************************************)
(* The program: producers and the driver, interleaved.                     *)
(***************************************************************************)
Next ==
    \/ \E t \in Producers : AddRequest(t)
    \/ \E t \in Producers : IsCompleted(t)
    \/ \E t \in Producers : ReleaseTransaction(t)
    \/ \E t \in Producers : Return(t)
    \/ Update

Spec == Init /\ [][Next]_vars

\* The same program, with calls that do not overlap.
InitSeq == InitProgram /\ track = FALSE /\ serial = TRUE

SeqSpec == InitSeq /\ [][Next]_vars

\* The scheduling the program gives, for calls that do not overlap: the driver
\* thread keeps running (main's loops call Update again and again), a thread
\* inside a call goes on to the end of the call, and the engine ends the
\* transfer of every session it holds.  No producer is obliged to begin a
\* call.  Strong fairness, because a step of one thread is disabled for a
\* moment whenever another thread is inside a call.
Fairness ==
    /\ SF_vars(Update)
    /\ \A t \in Producers :
          SF_vars(\/ AddRequest_AddHandle(t)
                  \/ AddRequest_Insert(t)
                  \/ IsCompleted_Read(t)
                  \/ ReleaseTransaction_Erase(t)
                  \/ Return(t))
    /\ \A s \in TxIds :
          SF_vars(\E result \in EngineResults : Perform_Finish(s, result))

FairSpec == InitSeq /\ [][Next]_vars /\ Fairness

\* The same program, with the history of IsCompleted's answers recorded.
InitObserved == InitProgram /\ track = TRUE /\ serial = FALSE

SpecObserved == InitObserved /\ [][Next]_vars

\* The same program with calls that do not overlap, requests that carry a
\* timeout, and time passing inside the engine.
TimeoutNext ==
    \/ \E t \in Producers, timeout \in RequestTimeouts :
          AddRequest_New(t, timeout)
    \/ \E t \in Producers : AddRequest_AddHandle(t)
    \/ \E t \in Producers : AddRequest_Insert(t)
    \/ \E t \in Producers : IsCompleted(t)
    \/ \E t \in Producers : ReleaseTransaction(t)
    \/ \E t \in Producers : Return(t)
    \/ Update
    \/ \E s \in TxIds : Perform_Tick(s)

TimeoutSpec == InitSeq /\ [][TimeoutNext]_vars

(***************************************************************************)
(* HttpClient::_CreateHandle on its own, called from any thread with no     *)
(* mutex held around it.                                                    *)
(***************************************************************************)
\* std::atomic_fetch_add(&s_TopHandleId, 1), its result not kept by the code;
\* arg[t] remembers the value this call's increment produced.
CreateHandle_FetchAdd(t) ==
    /\ pc[t] = "idle"
    /\ Len(issued) + Cardinality({u \in Producers : pc[u] = "ch_load"}) < MaxCalls
    /\ s_TopHandleId' = FetchAdd(s_TopHandleId)
    /\ arg' = [arg EXCEPT ![t] = FetchAdd(s_TopHandleId)]
    /\ pc' = [pc EXCEPT ![t] = "ch_load"]
    /\ UNCHANGED << s_mutex, m_Handles, m_RequestResult, m_Completed,
                    destroyed, allocated, engineVars, transaction, ret,
                    curMsg, cbRunning, ghostVars, track, serial, timeVars,
                    mainVars, reported,
                    firstVars, ruVars >>

\* return s_TopHandleId: the counter is read again
CreateHandle_Load(t) ==
    /\ pc[t] = "ch_load"
    /\ arg' = [arg EXCEPT ![t] = s_TopHandleId]
    /\ issued' = Append(issued, s_TopHandleId)
    /\ pc' = [pc EXCEPT ![t] = "idle"]
    /\ UNCHANGED << clientVars, engineVars, s_mutex, transaction, ret, curMsg,
                    cbRunning, cbCount, everMapped, observedTrue, afterTrue,
                    track, serial, timeVars, mainVars, reported,
                    firstVars, ruVars >>

CreateHandleNext ==
    \/ \E t \in Producers : CreateHandle_FetchAdd(t)
    \/ \E t \in Producers : CreateHandle_Load(t)

CreateHandleSpec == Init /\ [][CreateHandleNext]_vars

(***************************************************************************)
(* main's GET test: every producer thread submits one request and stores    *)
(* the handle in its slot of handles[]; the main thread loops over Update   *)
(* and IsCompleted on every slot until all of them answer true.             *)
(***************************************************************************)
\* The thread that writes each slot of handles[], in the order of the for loop.
ThreadOfSlot == << "p1", "p2" >>
NumSlots == Len(ThreadOfSlot)

\* The thread's lambda calls client.AddRequest, once.
Main_Submit(t) ==
    /\ handles[t] = INVALID_HANDLE_ID
    /\ AddRequest_New(t, DefaultTimeout)

\* handles[i] = client.AddRequest( ... ): the returned handle is stored
Main_StoreHandle(t) ==
    /\ pc[t] = "done"
    /\ ret[t] = RetHandle
    /\ handles' = [handles EXCEPT ![t] = arg[t]]
    /\ pc' = [pc EXCEPT ![t] = "idle"]
    /\ arg' = [arg EXCEPT ![t] = INVALID_HANDLE_ID]
    /\ transaction' = [transaction EXCEPT ![t] = NullTx]
    /\ ret' = [ret EXCEPT ![t] = NoRet]
    /\ UNCHANGED << clientVars, engineVars, ghostVars, s_mutex, curMsg,
                    cbRunning, track, serial, timeVars, mainAt, slot,
                    allCompleted, reported,
                    firstVars, ruVars >>

\* while( true ) { client.Update();
Main_Update ==
    /\ mainAt = "update"
    /\ Update_Perform

\* Update returns (curl_multi_info_read gave nullptr); bool allCompleted =
\* true; the for loop starts at the first slot
Main_UpdateReturn ==
    /\ Ready(Driver)
    /\ pc[Driver] = "info_read"
    /\ msgs = << >>
    /\ pc' = [pc EXCEPT ![Driver] = "idle"]
    /\ mainAt' = "check"
    /\ slot' = 1
    /\ allCompleted' = TRUE
    /\ UNCHANGED << clientVars, engineVars, ghostVars, s_mutex, arg,
                    transaction, ret, curMsg, cbRunning, track, serial,
                    timeVars, handles, reported,
                    firstVars, ruVars >>

\* client.IsCompleted( handles[i] ) is called with what the slot holds now
Main_IsCompleted ==
    /\ mainAt = "check"
    /\ IsCompleted_Lookup(Driver, handles[ThreadOfSlot[slot]])

\* if( !client.IsCompleted( handles[i] ) ) allCompleted = false;  ++i;  after
\* the last slot: if( allCompleted ) break; else the while loop goes round
Main_CheckReturn ==
    /\ pc[Driver] = "done"
    /\ ret[Driver] \in {IsCompletedTrue, IsCompletedFalse}
    /\ allCompleted' = (allCompleted /\ ret[Driver] = IsCompletedTrue)
    /\ IF slot < NumSlots
       THEN /\ slot' = slot + 1
            /\ mainAt' = "check"
       ELSE /\ slot' = 1
            /\ mainAt' = IF allCompleted' THEN "break" ELSE "update"
    /\ pc' = [pc EXCEPT ![Driver] = "idle"]
    /\ arg' = [arg EXCEPT ![Driver] = INVALID_HANDLE_ID]
    /\ transaction' = [transaction EXCEPT ![Driver] = NullTx]
    /\ ret' = [ret EXCEPT ![Driver] = NoRet]
    /\ afterTrue' = afterTrue \ {Driver}
    /\ UNCHANGED << clientVars, engineVars, cbCount, issued, everMapped,
                    observedTrue, s_mutex, curMsg, cbRunning, track, serial,
                    timeVars, handles, reported,
                    firstVars, ruVars >>

\* The loop up to its break.  Nothing is released before the loop ends, so
\* the find_if of Update finds the transaction of every finished-event and
\* its else branch is not among the steps.
MainNext ==
    \/ \E t \in Producers : Main_Submit(t)
    \/ \E t \in Producers : AddRequest_AddHandle(t)
    \/ \E t \in Producers : AddRequest_Insert(t)
    \/ \E t \in Producers : Main_StoreHandle(t)
    \/ Main_Update
    \/ \E s \in TxIds : Perform_Write(s)
    \/ Perform_WriteReturn
    \/ \E s \in TxIds, result \in EngineResults : Perform_Finish(s, result)
    \/ Perform_Return
    \/ InfoRead_Ok
    \/ InfoRead_Fail
    \/ Update_Dispatch
    \/ Update_DispatchReturn
    \/ Main_UpdateReturn
    \/ Main_IsCompleted
    \/ IsCompleted_Read(Driver)
    \/ Main_CheckReturn

MainSpec == Init /\ [][MainNext]_vars

(***************************************************************************)
(* The first, single-threaded HttpClient (src/httpclient/main.cpp): the     *)
(* same registry m_Handles, no mutex, and the counter m_Lock, which         *)
(* _CreateHandle advances in a loop around atomic_exchange.                 *)
(***************************************************************************)
\* dst = (dst + 1) % 0xffffffff: the counter wraps at 2^w - 1.
FirstModulus == HandleIdModulus - 1

\* What the first client's steps leave alone.
firstFrame == << s_TopHandleId, s_mutex, m_RequestResult, m_Completed,
                destroyed, delivered, finished, msgs, drained, arg, ret,
                curMsg, cbCount, cbRunning, everMapped, observedTrue,
                afterTrue, track, serial, timeVars, mainVars, reported,
                ruVars >>

\* new HttpTransaction( callback ); curl_easy_setopt calls;
\* curl_multi_add_handle; _CreateHandle is entered
First_AddRequest_New ==
    /\ pc[Driver] = "idle"
    /\ allocated < MaxCalls
    /\ allocated' = allocated + 1
    /\ transaction' = [transaction EXCEPT ![Driver] = allocated + 1]
    /\ multi' = multi \cup {allocated + 1}
    /\ pc' = [pc EXCEPT ![Driver] = "first_load"]
    /\ UNCHANGED << firstFrame, m_Handles, issued, firstVars >>

\* do { dst = m_Lock;  dst = (dst + 1) % 0xffffffff;
First_CreateHandle_Load ==
    /\ pc[Driver] = "first_load"
    /\ dst' = (m_Lock + 1) % FirstModulus
    /\ pc' = [pc EXCEPT ![Driver] = "first_exchange"]
    /\ UNCHANGED << firstFrame, m_Handles, issued, allocated, transaction,
                    multi, m_Lock >>

\* } while( std::atomic_exchange_explicit(&m_Lock, dst, ...) ): the exchange
\* stores dst and gives back the value m_Lock held; the loop goes round
\* while that value is not 0.
First_CreateHandle_Exchange ==
    /\ pc[Driver] = "first_exchange"
    /\ m_Lock' = dst
    /\ pc' = [pc EXCEPT ![Driver] =
                 IF m_Lock # 0 THEN "first_load" ELSE "first_insert"]
    /\ UNCHANGED << firstFrame, m_Handles, issued, allocated, transaction,
                    multi, dst >>

\* return dst;  m_Handles[handle] = transaction;  return the handle
First_AddRequest_Insert ==
    /\ pc[Driver] = "first_insert"
    /\ m_Handles' = MapInsert(m_Handles, dst, transaction[Driver])
    /\ issued' = Append(issued, dst)
    /\ transaction' = [transaction EXCEPT ![Driver] = NullTx]
    /\ pc' = [pc EXCEPT ![Driver] = "idle"]
    /\ UNCHANGED << firstFrame, allocated, multi, firstVars >>

\* ReleaseTransaction of a registered handle: erase and delete
First_ReleaseTransaction(h) ==
    /\ pc[Driver] = "idle"
    /\ MapFind(m_Handles, h) # NullTx
    /\ m_Handles' = MapErase(m_Handles, h)
    /\ UNCHANGED << firstFrame, issued, allocated, transaction, multi, pc,
                    firstVars >>

FirstNext ==
    \/ First_AddRequest_New
    \/ First_CreateHandle_Load
    \/ First_CreateHandle_Exchange
    \/ First_AddRequest_Insert
    \/ \E h \in 0 .. FirstModulus - 1 : First_ReleaseTransaction(h)

FirstSpec == Init /\ [][FirstNext]_vars

(***************************************************************************)
(* RequestUpdate<int> (src/RequestAndUpdate/main.cpp): two buffers, the     *)
(* pointers m_Requests and m_UpdatingRequests to them, and a mutex.         *)
(* Producer threads call AddRequest, the driver thread calls Update; the    *)
(* executer and the sort predicate are those main registers.  A request is  *)
(* its int value and the number of the AddRequest call that brought it.     *)
(***************************************************************************)
\* Values AddRequest is called with.
RequestValues == {100, 200}

\* main's predicate: std::get<0>(v1) < std::get<0>(v2)
m_SortPred(v1, v2) == v1.v < v2.v

\* The vector a buffer pointer points to.
Buffer(b) == IF b = 1 THEN m_Requests1 ELSE m_Requests2

\* std::lock_guard<std::mutex> lock( m_Mutex )
RuCanLock_Unguarded(t) == TRUE
RuCanLock(t) == m_Mutex = NoThread

\* The arrangements of a vector's elements.
Arrangements(seq) ==
    { [i \in 1 .. Len(seq) |-> seq[f[i]]] :
         f \in { g \in [1 .. Len(seq) -> 1 .. Len(seq)] :
                    \A i, j \in 1 .. Len(seq) : i # j => g[i] # g[j] } }

\* std::sort(begin, end, m_SortPred): some arrangement in which no element is
\* ordered by the predicate ahead of one that precedes it (the sort is not
\* stable).
SortedArrangements_Unsorted(seq) == {seq}
SortedArrangements(seq) ==
    { s \in Arrangements(seq) :
         \A i, j \in 1 .. Len(s) : i < j => ~m_SortPred(s[j], s[i]) }

\* m_UpdatingRequests->clear()
Cleared_Kept(seq) == seq
Cleared(seq) == << >>

\* AddRequest( argFirst ): the lock_guard takes m_Mutex
Ru_AddRequest_Lock(t, v) ==
    /\ ruPc[t] = "idle"
    /\ added < MaxAdds
    /\ RuCanLock(t)
    /\ m_Mutex' = t
    /\ param' = [param EXCEPT ![t] = [v |-> v, id |-> added + 1]]
    /\ added' = added + 1
    /\ ruPc' = [ruPc EXCEPT ![t] = "ru_load"]
    /\ UNCHANGED << httpVars, firstVars, m_Requests1, m_Requests2, m_Requests,
                    m_UpdatingRequests, target, position, executed >>

\* m_Requests->...: the pointer m_Requests is read
Ru_AddRequest_Load(t) ==
    /\ ruPc[t] = "ru_load"
    /\ target' = [target EXCEPT ![t] = m_Requests]
    /\ ruPc' = [ruPc EXCEPT ![t] = "ru_emplace"]
    /\ UNCHANGED << httpVars, firstVars, m_Requests1, m_Requests2, m_Requests,
                    m_UpdatingRequests, m_Mutex, param, position, executed,
                    added >>

\* ...->emplace_back( std::make_tuple( argFirst ) ); the lock_guard releases
\* the mutex
Ru_AddRequest_Emplace(t) ==
    /\ ruPc[t] = "ru_emplace"
    /\ m_Requests1' = IF target[t] = 1 THEN Append(m_Requests1, param[t])
                                       ELSE m_Requests1
    /\ m_Requests2' = IF target[t] = 2 THEN Append(m_Requests2, param[t])
                                       ELSE m_Requests2
    /\ m_Mutex' = IF m_Mutex = t THEN NoThread ELSE m_Mutex
    /\ param' = [param EXCEPT ![t] = NoParam]
    /\ target' = [target EXCEPT ![t] = 0]
    /\ ruPc' = [ruPc EXCEPT ![t] = "idle"]
    /\ UNCHANGED << httpVars, firstVars, m_Requests, m_UpdatingRequests,
                    position, executed, added >>

\* Update: { lock_guard; std::swap( m_Requests, m_UpdatingRequests ); }
Ru_Update_Swap ==
    /\ ruPc[Driver] = "idle"
    /\ RuCanLock(Driver)
    /\ m_Requests' = m_UpdatingRequests
    /\ m_UpdatingRequests' = m_Requests
    /\ ruPc' = [ruPc EXCEPT ![Driver] = "ru_sort"]
    /\ UNCHANGED << httpVars, firstVars, m_Requests1, m_Requests2, m_Mutex,
                    param, target, position, executed, added >>

\* std::sort(m_UpdatingRequests->begin(), m_UpdatingRequests->end(),
\* m_SortPred); the range-for begins
Ru_Update_Sort ==
    /\ ruPc[Driver] = "ru_sort"
    /\ \E s \in SortedArrangements(Buffer(m_UpdatingRequests)) :
          /\ m_Requests1' = IF m_UpdatingRequests = 1 THEN s ELSE m_Requests1
          /\ m_Requests2' = IF m_UpdatingRequests = 2 THEN s ELSE m_Requests2
    /\ position' = 0
    /\ ruPc' = [ruPc EXCEPT ![Driver] = "ru_exec"]
    /\ UNCHANGED << httpVars, firstVars, m_Requests, m_UpdatingRequests,
                    m_Mutex, param, target, executed, added >>

\* for( Parameter& param : *m_UpdatingRequests ) apply(m_Executer, param)
Ru_Update_Execute ==
    /\ ruPc[Driver] = "ru_exec"
    /\ position < Len(Buffer(m_UpdatingRequests))
    /\ executed' = Append(executed, Buffer(m_UpdatingRequests)[position + 1])
    /\ position' = position + 1
    /\ UNCHANGED << httpVars, firstVars, m_Requests1, m_Requests2, m_Requests,
                    m_UpdatingRequests, m_Mutex, ruPc, param, target, added >>

\* The range-for is at end(); m_UpdatingRequests->clear(); Update returns
Ru_Update_Clear ==
    /\ ruPc[Driver] = "ru_exec"
    /\ position >= Len(Buffer(m_UpdatingRequests))
    /\ m_Requests1' = IF m_UpdatingRequests = 1 THEN Cleared(m_Requests1)
                                                ELSE m_Requests1
    /\ m_Requests2' = IF m_UpdatingRequests = 2 THEN Cleared(m_Requests2)
                                                ELSE m_Requests2
    /\ position' = 0
    /\ ruPc' = [ruPc EXCEPT ![Driver] = "idle"]
    /\ UNCHANGED << httpVars, firstVars, m_Requests, m_UpdatingRequests,
                    m_Mutex, param, target, executed, added >>

RequestNext ==
    \/ \E t \in Producers, v \in RequestValues : Ru_AddRequest_Lock(t, v)
    \/ \E t \in Producers : Ru_AddRequest_Load(t)
    \/ \E t \in Producers : Ru_AddRequest_Emplace(t)
    \/ Ru_Update_Swap
    \/ Ru_Update_Sort
    \/ Ru_Update_Execute
    \/ Ru_Update_Clear

RequestSpec == Init /\ [][RequestNext]_vars

\* The requests the Update call in progress has passed to the executer.
ExecutedNow ==
    SubSeq(executed, Len(executed) - position + 1, Len(executed))

\* The call numbers of the requests in a vector.
Ids(seq) == {seq[i].id : i \in 1 .. Len(seq)}

\* The call numbers of the requests AddRequest calls hold and have not yet
\* put in a buffer.
InFlight == {param[t].id : t \in {u \in Producers : param[u] # NoParam}}

(***************************************************************************)
(* Vocabulary of the properties.                                           *)
(***************************************************************************)
\* Handle ids AddRequest has returned.
IssuedHandles == {issued[i] : i \in 1 .. Len(issued)}

\* Thread t's IsCompleted call returns in this step.
IsCompletedReturns(t) ==
    /\ pc[t] \in {"idle", "ic_read"}
    /\ pc'[t] = "done"
    /\ ret'[t] \in {IsCompletedTrue, IsCompletedFalse}

\* Thread t's IsCompleted call begins in this step.
IsCompletedBegins(t) ==
    /\ pc[t] = "idle"
    /\ \/ pc'[t] = "ic_read"
       \/ pc'[t] = "done" /\ ret'[t] \in {IsCompletedTrue, IsCompletedFalse}

\* Thread t's ReleaseTransaction call begins in this step.
ReleaseBegins(t) ==
    /\ pc[t] = "idle"
    /\ \/ pc'[t] = "rel_erase"
       \/ pc'[t] = "done" /\ ret'[t] \in {ReleasedTrue, ReleasedFalse}

\* Thread t's ReleaseTransaction erases and deletes in this step.
ReleaseErases(t) == pc[t] = "rel_erase" /\ pc'[t] # "rel_erase"

\* Handle h was registered and its transaction has been deleted.
Released(h) == h \in DOMAIN everMapped /\ destroyed[everMapped[h]] >= 1

\* The driver thread is inside curl_multi_perform on m_MultiHandle.
DriverInEngine == pc[Driver] \in {"perform", "cb_write"}

\* Thread t reads or writes the map m_Handles in this step: the insertion of
\* AddRequest, the lookup of _GetCurlHandle, the erase of ReleaseTransaction,
\* the find_if of Update.
MapAccess(t) ==
    \/ t \in Producers /\ pc[t] = "load" /\ pc'[t] = "done"
    \/ t \in Producers /\ pc[t] = "idle"
          /\ pc'[t] \in {"ic_read", "rel_erase", "done"}
    \/ t \in Producers /\ pc[t] = "rel_erase" /\ pc'[t] \in {"done", "aborted"}
    \/ t = Driver /\ pc[t] = "dispatch" /\ pc'[t] \in {"cb_fail", "info_read"}

\* Thread t takes a step of AddRequest, of IsCompleted, of ReleaseTransaction.
AddRequestStep(t) ==
    \/ pc[t] = "idle" /\ pc'[t] = "add_handle"
    \/ pc[t] = "add_handle" /\ pc'[t] = "load"
    \/ pc[t] = "load" /\ pc'[t] = "done"

IsCompletedStep(t) ==
    \/ IsCompletedBegins(t)
    \/ pc[t] = "ic_read" /\ pc'[t] = "done"

ReleaseStep(t) ==
    \/ ReleaseBegins(t)
    \/ ReleaseErases(t)

\* The registry entry of handle h, and the outcome and the completed flag of
\* its transaction, are the same after the step.
EntryKept(h) ==
    /\ h \in DOMAIN m_Handles'
    /\ m_Handles'[h] = m_Handles[h]
    /\ m_RequestResult'[m_Handles[h]] = m_RequestResult[m_Handles[h]]
    /\ m_Completed'[m_Handles[h]] = m_Completed[m_Handles[h]]

\* The Update call returns in this step.
UpdateReturns == pc[Driver] = "info_read" /\ pc'[Driver] = "idle"

(***************************************************************************)
(* C1: a transaction's completion callback is invoked at most once, however *)
(* many chunks and finished-events the engine delivers and however often    *)
(* Update is called.                                                        *)
(***************************************************************************)
C1_CallbackOnce == \A h \in IssuedHandles : cbCount[everMapped[h]] <= 1

(***************************************************************************)
(* C2: an IsCompleted call that returns true for a handle still in the      *)
(* registry returns after the callback of the handle's transaction has      *)
(* returned (OnResponse has reached m_Completed = true).                    *)
(***************************************************************************)
C2_CompletedAfterCallback ==
    [][\A t \in Producers :
          ( /\ IsCompletedReturns(t)
            /\ ret'[t] = IsCompletedTrue
            /\ arg'[t] \in DOMAIN m_Handles
            /\ Alive(m_Handles[arg'[t]]) )
          => m_Completed[m_Handles[arg'[t]]]]_vars

(***************************************************************************)
(* C3: IsCompleted returns true for a registered handle that AddRequest has *)
(* returned only after Update has read a finished-event of the handle's     *)
(* session; until then every IsCompleted call for it returns false.         *)
(***************************************************************************)
C3_CompletedOnlyAfterFinishedEvent ==
    [][\A t \in Producers :
          ( /\ IsCompletedReturns(t)
            /\ ret'[t] = IsCompletedTrue
            /\ arg'[t] \in IssuedHandles
            /\ arg'[t] \in DOMAIN m_Handles
            /\ Alive(m_Handles[arg'[t]]) )
          => m_Handles[arg'[t]] \in drained]_vars

(***************************************************************************)
(* C4: once an IsCompleted call has returned true for a handle AddRequest   *)
(* returned, no later IsCompleted call for that handle returns false.       *)
(***************************************************************************)
C4_CompletedStaysTrue ==
    [][\A t \in Producers :
          (IsCompletedReturns(t) /\ t \in afterTrue')
             => ret'[t] = IsCompletedTrue]_vars

(***************************************************************************)
(* C5: the handles AddRequest has returned are pairwise distinct, and when  *)
(* every AddRequest call made has returned and nothing has been released,   *)
(* the registry holds exactly one entry per returned handle.                *)
(***************************************************************************)
C5_DistinctHandles ==
    /\ \A i, j \in 1 .. Len(issued) : i # j => issued[i] # issued[j]
    /\ ( /\ Len(issued) = allocated
         /\ \A x \in TxIds : destroyed[x] = 0 )
       => /\ DOMAIN m_Handles = IssuedHandles
          /\ Cardinality(DOMAIN m_Handles) = Len(issued)

\* Both producers' requests are registered while the driver is inside Update.
C5_Witness ==
    /\ Len(issued) = MaxRequests
    /\ allocated = MaxRequests
    /\ \A x \in TxIds : destroyed[x] = 0
    /\ Cardinality(DOMAIN m_Handles) = MaxRequests
    /\ pc[Driver] = "perform"

(***************************************************************************)
(* C6: ReleaseTransaction removes the entry and destroys the transaction as *)
(* one atomic step: of two concurrent calls for the same handle one returns *)
(* true and one false, so no transaction is deleted twice.                  *)
(***************************************************************************)
C6_ReleaseAtomic == \A x \in TxIds : destroyed[x] <= 1

(***************************************************************************)
(* C7: of two ReleaseTransaction calls for a registered handle made one     *)
(* after the other, the first removes the entry, deletes the transaction    *)
(* and returns true, the second returns false and changes nothing; a call   *)
(* for a handle that is not registered returns false and changes nothing;   *)
(* no transaction is deleted twice.                                         *)
(***************************************************************************)
C7_ReleaseTwice ==
    [][\A t \in Producers :
          /\ ReleaseErases(t)
                => /\ arg[t] \notin DOMAIN m_Handles'
                   /\ destroyed'[transaction[t]] = 1
                   /\ pc'[t] = "done"
                   /\ ret'[t] = ReleasedTrue
          /\ (ReleaseBegins(t) /\ arg'[t] \in DOMAIN m_Handles)
                => pc'[t] = "rel_erase"
          /\ (ReleaseBegins(t) /\ arg'[t] \notin DOMAIN m_Handles)
                => /\ ret'[t] = ReleasedFalse
                   /\ UNCHANGED << clientVars, engineVars >>
          /\ (ReleaseBegins(t) /\ Released(arg'[t]))
                => /\ ret'[t] = ReleasedFalse
                   /\ UNCHANGED << clientVars, engineVars >>]_vars

\* The second call for a released handle has returned false.
C7_Witness ==
    \E t \in Producers :
       /\ pc[t] = "done"
       /\ ret[t] = ReleasedFalse
       /\ Released(arg[t])
       /\ destroyed[everMapped[arg[t]]] = 1

(***************************************************************************)
(* C8: IsCompleted returns true for a handle that is not in the registry    *)
(* (invalid, not issued, or released) and changes neither the registry nor  *)
(* any transaction.                                                         *)
(***************************************************************************)
C8_UnknownHandleIsCompleted ==
    [][\A t \in Producers :
          (IsCompletedBegins(t) /\ arg'[t] \notin DOMAIN m_Handles)
             => /\ pc'[t] = "done"
                /\ ret'[t] = IsCompletedTrue
                /\ UNCHANGED << clientVars, engineVars >>]_vars

\* IsCompleted has returned true for a handle that was released, with another
\* handle still registered.
C8_Witness ==
    \E t \in Producers :
       /\ pc[t] = "done"
       /\ ret[t] = IsCompletedTrue
       /\ Released(arg[t])
       /\ DOMAIN m_Handles # {}

(***************************************************************************)
(* C9: once the outcome of a live transaction is no longer pending, no step *)
(* changes it.                                                              *)
(***************************************************************************)
C9_OutcomeWrittenOnce ==
    [][\A x \in TxIds :
          (Alive(x) /\ m_RequestResult[x] # CURL_LAST)
             => m_RequestResult'[x] = m_RequestResult[x]]_vars

(***************************************************************************)
(* C10: with the driver calling Update for ever and the engine ending every *)
(* transfer, each transaction whose handle AddRequest has returned is       *)
(* eventually completed, unless it is released or the process dies.         *)
(***************************************************************************)
C10_EventuallyCompleted ==
    \A h \in 1 .. MaxRequests :
       (h \in IssuedHandles)
          ~> \/ h \in DOMAIN everMapped /\ TxIsCompleted(everMapped[h])
             \/ Released(h)
             \/ pc[Driver] = "aborted"

(***************************************************************************)
(* C11: a transaction whose request carries a timeout that has passed with  *)
(* no response delivered never gets the outcome Ok; and when Update hands a *)
(* failed finished-event to the callback, the transaction holds the         *)
(* engine's code: IsTimeout() is true exactly for                           *)
(* CURLE_OPERATION_TIMEDOUT and IsOk() is false.                            *)
(***************************************************************************)
C11_TimeoutOutcome ==
    [][\A x \in TxIds :
          /\ ( /\ Alive(x)
               /\ 0 < m_Timeout[x]
               /\ m_Timeout[x] <= elapsed[x]
               /\ delivered[x] = 0 )
             => ~TxIsOk(x)'
          /\ (pc[Driver] = "dispatch" /\ pc'[Driver] = "cb_fail" /\ cbRunning' = x)
             => /\ m_RequestResult'[x] = curMsg.result
                /\ ~TxIsOk(x)'
                /\ TxIsTimeout(x)' <=> curMsg.result = CURLE_OPERATION_TIMEDOUT]_vars

(***************************************************************************)
(* C12: no call of the handle allocator, however many have been made and    *)
(* the counter wrapping modulo 2^w, returns INVALID_HANDLE_ID.              *)
(***************************************************************************)
C12_NeverInvalidHandle ==
    \A i \in 1 .. Len(issued) : issued[i] # INVALID_HANDLE_ID

(***************************************************************************)
(* C13: a _CreateHandle call, overlapping or not with calls on other        *)
(* threads and with no mutex held, returns the value its own increment      *)
(* produced, and until the counter has wrapped around that value differs    *)
(* from every value returned before.                                        *)
(***************************************************************************)
C13_CreateHandleLockFree ==
    [][\A t \in Producers :
          (pc[t] = "ch_load" /\ pc'[t] = "idle")
             => /\ arg'[t] = arg[t]
                /\ Len(issued') <= HandleIdModulus
                      => \A i \in 1 .. Len(issued) : issued[i] # arg'[t]]_vars

(***************************************************************************)
(* C14: AddRequest registers its session in the engine's multiplexing set   *)
(* (curl_multi_add_handle) only while the driver is not inside              *)
(* curl_multi_perform on that set.                                          *)
(***************************************************************************)
C14_EngineExclusive ==
    [][\A t \in Producers :
          (pc[t] = "add_handle" /\ pc'[t] = "load") => ~DriverInEngine]_vars

(***************************************************************************)
(* C15: no step of Update records an outcome on, sets the completed flag    *)
(* of, or invokes the callback of a transaction that has been destroyed.    *)
(***************************************************************************)
C15_NoOutcomeAfterRelease ==
    [][\A x \in TxIds :
          destroyed[x] >= 1
             => /\ m_RequestResult'[x] = m_RequestResult[x]
                /\ m_Completed'[x] = m_Completed[x]
                /\ cbCount'[x] = cbCount[x]]_vars

(***************************************************************************)
(* C16: when IsCompleted reads the transaction its lookup returned, the     *)
(* transaction has not been destroyed.                                      *)
(***************************************************************************)
C16_NoReadAfterRelease ==
    [][\A t \in Producers :
          (pc[t] = "ic_read" /\ pc'[t] = "done") => Alive(transaction[t])]_vars

(***************************************************************************)
(* C19: every step that reads or writes m_Handles is taken by a thread that *)
(* holds s_mutex (it has it already, or the mutex is free and the step      *)
(* takes it), and while some thread holds the mutex across steps it is the  *)
(* only one inside AddRequest's body or Update's callback dispatch.         *)
(***************************************************************************)
C19_MapUnderMutex ==
    [][\A t \in Threads :
          /\ MapAccess(t) => s_mutex \in {NoThread, t}
          /\ pc[t] \in {"add_handle", "load", "cb_fail"} => s_mutex = t]_vars

\* The driver waits to scan the map and a producer is between the two
\* critical sections of ReleaseTransaction while another producer, inside
\* AddRequest, holds the mutex.
C19_Witness ==
    /\ pc[Driver] = "dispatch"
    /\ \E t, u \in Producers :
          /\ pc[t] = "load"
          /\ s_mutex = t
          /\ pc[u] = "rel_erase"

(***************************************************************************)
(* C20: when an Update call returns, every registered transaction whose     *)
(* session had its finished-event drained has an outcome recorded, whether  *)
(* the event carried the success code or a failure code.                    *)
(***************************************************************************)
C20_DrainedOutcomeRecorded ==
    [][UpdateReturns
          => \A h \in DOMAIN m_Handles :
                m_Handles[h] \in drained => TxIsCompleted(m_Handles[h])]_vars

(***************************************************************************)
(* C17: when main's loop has seen IsCompleted true for every slot of        *)
(* handles[] in one pass, every producer's request has been submitted and   *)
(* the callback of each has been invoked exactly once.                      *)
(***************************************************************************)
C17_AllCompletedMeansAllDone ==
    mainAt = "break"
       => /\ Len(issued) = Cardinality(Producers)
          /\ \A h \in IssuedHandles : cbCount[everMapped[h]] = 1

(***************************************************************************)
(* C18: when Update drains a finished-event whose session matches no        *)
(* registry entry, it reports the session and goes on with the next event.  *)
(***************************************************************************)
C18_UnmatchedEventReported ==
    [][( /\ pc[Driver] = "dispatch"
         /\ pc'[Driver] # "dispatch"
         /\ FindByCurl(m_Handles, curMsg.easy) = INVALID_HANDLE_ID )
          => /\ curMsg.easy \in reported'
             /\ pc'[Driver] = "info_read"]_vars

(***************************************************************************)
(* C21: in the first client, the handle an AddRequest call gets from        *)
(* _CreateHandle is not the handle of a request still registered, and until *)
(* the counter has wrapped at its modulus it differs from every handle      *)
(* returned before.                                                         *)
(***************************************************************************)
C21_FirstHandlesDistinct ==
    [][(pc[Driver] = "first_insert" /\ pc'[Driver] = "idle")
          => /\ dst \notin DOMAIN m_Handles
             /\ Len(issued') <= FirstModulus
                   => \A i \in 1 .. Len(issued) : issued[i] # dst]_vars

C23_CallbackWithoutMutex == cbRunning # NullTx => s_mutex # Driver

(***************************************************************************)
(* C24: no session in the engine's multiplexing set belongs to a            *)
(* transaction that has been destroyed.                                     *)
(***************************************************************************)
C24_NoDestroyedSessionInEngine ==
    \A x \in TxIds : x \in multi => destroyed[x] = 0

\* C25: within one Update call the executer receives the requests in the
\* order of the registered sort predicate, whatever the order of the
\* AddRequest calls: no request is executed before another one that the
\* predicate orders strictly ahead of it.
C25_ExecutedInPredicateOrder ==
    \A i, j \in 1 .. Len(ExecutedNow) :
        i < j => ~m_SortPred(ExecutedNow[j], ExecutedNow[i])

\* One Update call has executed a request ahead of one that was added before
\* it, because the predicate orders it first.
C25_Witness ==
    /\ ruPc[Driver] = "ru_exec"
    /\ \E i, j \in 1 .. Len(ExecutedNow) :
          /\ i < j
          /\ ExecutedNow[i].id > ExecutedNow[j].id
          /\ m_SortPred(ExecutedNow[i], ExecutedNow[j])

\* C26: with producers calling AddRequest and one thread calling Update, no
\* added request is lost and none is executed twice; when Update has
\* returned, the buffer it processed is empty and every request not yet
\* executed is one whose add no buffer swap has followed (it is in the
\* buffer AddRequest fills, or in an AddRequest call that holds the mutex).
C26_ExactlyOnce ==
    /\ \A i, j \in 1 .. Len(executed) :
          i # j => executed[i].id # executed[j].id
    /\ Ids(executed) \cup Ids(m_Requests1) \cup Ids(m_Requests2) \cup InFlight
          = 1 .. added
    /\ ruPc[Driver] = "ru_exec" =>
          /\ \A k \in 1 .. Len(Buffer(m_UpdatingRequests)) :
                k > position =>
                   Buffer(m_UpdatingRequests)[k].id \notin Ids(executed)
    /\ ruPc[Driver] = "idle" =>
          /\ Buffer(m_UpdatingRequests) = << >>
          /\ Ids(executed) \cap Ids(Buffer(m_Requests)) = {}
          /\ (1 .. added) \ Ids(executed)
                = Ids(Buffer(m_Requests)) \cup InFlight

\* Update has returned and every request of the behaviour has been executed.
C26_Witness ==
    /\ ruPc[Driver] = "idle"
    /\ added = MaxAdds
    /\ Ids(executed) = 1 .. MaxAdds

\* C27: m_Requests and m_UpdatingRequests always point to different buffers;
\* an AddRequest never appends to the buffer Update works on outside the
\* mutex, and Update's sort, iteration and clear never touch the buffer
\* AddRequest fills; a request added while Update is executing is not
\* executed by that Update and stays in the buffer of the next one.
C27_BuffersApart ==
    [][/\ m_Requests # m_UpdatingRequests
       /\ m_Requests' # m_UpdatingRequests'
       /\ \A t \in Producers :
             (ruPc[t] = "ru_emplace" /\ ruPc'[t] = "idle") =>
                /\ target[t] = m_Requests
                /\ target[t] # m_UpdatingRequests
                /\ IF m_UpdatingRequests = 1
                      THEN m_Requests1' = m_Requests1
                      ELSE m_Requests2' = m_Requests2
                /\ executed' = executed
                /\ ruPc[Driver] # "idle" =>
                      param[t].id \notin Ids(ExecutedNow)'
       /\ (ruPc[Driver] \in {"ru_sort", "ru_exec"}
             /\ (ruPc'[Driver] # ruPc[Driver] \/ position' # position)) =>
                /\ IF m_Requests = 1
                      THEN m_Requests1' = m_Requests1
                      ELSE m_Requests2' = m_Requests2
                /\ Ids(Buffer(m_Requests)) \cap Ids(executed') = {}
      ]_vars

\* Update is in its loop, has executed a request, and the buffer AddRequest
\* fills holds a request added since the swap.
C27_Witness ==
    /\ ruPc[Driver] = "ru_exec"
    /\ position >= 1
    /\ Buffer(m_Requests) # << >>


====
